---- MODULE Spec2Model ----
(***************************************************************************)
(* Model of pyfmt (src/pyfmt/__init__.py): the exclusion resolver, the     *)
(* assembly of the two formatter command lines and the sequential run of   *)
(* isort and black.                                                        *)
(*                                                                         *)
(* A Python str is a sequence of atoms.  An atom is a TLA+ string standing *)
(* for a run of characters with no separator in it; the separators         *)
(* " ", ",", ".", "/" and "|" are atoms of their own, so that str.split,   *)
(* str.join, string concatenation and shlex.split are computed on the      *)
(* text and not assumed.                                                   *)
(***************************************************************************)
EXTENDS Integers, Sequences, FiniteSets, TLC

(* ----------------------------- bounds ---------------------------------- *)
MaxSkip == 2
MaxExit == 2

(* --------------------------- str helpers ------------------------------- *)
RECURSIVE SplitAcc(_, _, _, _)
SplitAcc(s, sep, cur, acc) ==
    IF s = <<>> THEN Append(acc, cur)
    ELSE IF Head(s) = sep
         THEN SplitAcc(Tail(s), sep, <<>>, Append(acc, cur))
         ELSE SplitAcc(Tail(s), sep, Append(cur, Head(s)), acc)

\* str.split(sep): every part, empty ones included; "".split(sep) = [""]
split(s, sep) == SplitAcc(s, sep, <<>>, <<>>)

RECURSIVE join(_, _)
\* sep.join(list)
join(sep, list) ==
    IF list = <<>> THEN <<>>
    ELSE IF Len(list) = 1 THEN list[1]
    ELSE list[1] \o sep \o join(sep, Tail(list))

\* shlex.split on text without quotes or escapes: whitespace-separated words
shlex_split(s) == SelectSeq(split(s, " "), LAMBDA w : w # <<>>)

\* item.split(".")[-1]
last_dot_part(name) == LET parts == split(name, ".") IN parts[Len(parts)]

RECURSIVE format(_, _)
\* str.format: each placeholder atom is replaced by the text bound to it
format(s, kw) ==
    IF s = <<>> THEN <<>>
    ELSE (IF Head(s) \in DOMAIN kw THEN kw[Head(s)] ELSE <<Head(s)>>)
         \o format(Tail(s), kw)

(* ------------------------ command templates ---------------------------- *)
\* f"py{sys.version_info.major}{sys.version_info.minor}" under Python 3.11
TARGET_VERSION == <<"py", "3", "11">>

ISORT_CMD ==
    << <<"isort">>,
       <<"--force-grid-wrap=0">>,
       <<"--line-width=", "{line_length}">>,
       <<"--multi-line=3">>,
       <<"--use-parentheses">>,
       <<"--recursive">>,
       <<"--trailing-comma">>,
       <<"{extra_isort_args}">>,
       <<"{path}">> >>

BLACK_CMD ==
    << <<"black">>,
       <<"--line-length=", "{line_length}">>,
       <<"--target-version=">> \o TARGET_VERSION,
       <<"{extra_black_args}">>,
       <<"{path}">> >>

(* ------------------- the working-directory tree ------------------------ *)
\* Directories, as paths relative to the working directory.
Dirs == { << <<"sub">> >>,
          << <<"sub">>, <<"deep">> >>,
          << <<"pkg">> >> }

\* Files: the directory that holds each (<<>> is the working directory) and
\* the base name.  sub/deep/pkg is a file that has the name of directory pkg.
Files == { [dir |-> <<>>,                        name |-> <<"foo", ".", "py">>],
           [dir |-> <<>>,                        name |-> <<"notes", ".", "txt">>],
           [dir |-> << <<"sub">> >>,             name |-> <<"a", ".", "py">>],
           [dir |-> << <<"sub">> >>,             name |-> <<"b", ".", "pyi">>],
           [dir |-> << <<"sub">> >>,             name |-> <<"c", ".", "txt">>],
           [dir |-> << <<"sub">>, <<"deep">> >>, name |-> <<"d", ".", "py">>],
           [dir |-> << <<"sub">>, <<"deep">> >>, name |-> <<"pkg">>],
           [dir |-> << <<"pkg">> >>,             name |-> <<"m", ".", "py">>] }

Cwd == <<"/", "w">>

\* os.path.abspath of a relative path with no "." or ".." component
abspath(p) == IF p = <<>> THEN Cwd ELSE Cwd \o <<"/">> \o p

\* find_all_files_and_dirs: the base names of all files, and the absolute
\* paths of all directories below the working directory
find_all_files == { f.name : f \in Files }
find_all_dirs  == { abspath(join(<<"/">>, d)) : d \in Dirs }

IsPrefix(p, q) == Len(p) <= Len(q) /\ SubSeq(q, 1, Len(p)) = p

\* the files os.walk(item) visits: those in item or in a directory below it
walk_files(item) == { f \in Files : IsPrefix(split(item, "/"), f.dir) }

\* the orders os.walk can list a set of files in: top-down, a directory's
\* files before those of the directories below it; the order inside one
\* directory is the operating system's
walk_orders(fs) ==
    { o \in [1..Cardinality(fs) -> fs] :
        /\ \A i, j \in 1..Cardinality(fs) : i # j => o[i] # o[j]
        /\ \A i, j \in 1..Cardinality(fs) :
             (Len(o[i].dir) < Len(o[j].dir) /\ IsPrefix(o[i].dir, o[j].dir)) => i < j }


(* ------------------------------ inputs --------------------------------- *)
\* the items a skip list is made of: files of the tree with extension py,
\* txt and pyi, directories at depth one and two, a name that is both a
\* file and a directory, and a name that is nothing in the tree
Items == { <<"foo", ".", "py">>,
           <<"notes", ".", "txt">>,
           <<"b", ".", "pyi">>,
           <<"sub">>,
           <<"sub", "/", "deep">>,
           <<"pkg">>,
           <<"nosuch">> }

SkipLists == UNION { [1..n -> Items] : n \in 0..MaxSkip }

ExtraIsortArgs == { <<>>, <<"--atomic">> }
ExtraBlackArgs == { <<>>, <<"-S">> }
ExitCodes == 0..MaxExit

path == <<"src">>
line_length == <<"100">>

(* ------------------------------ state ---------------------------------- *)
VARIABLES
    pc,                 \* the statement pyfmt() is at
    skip,               \* parameter skip, a comma-separated str
    isort, black, check,        \* parameters isort, black, check
    caller_isort_args,  \* extra_isort_args as the caller passed it
    caller_black_args,  \* extra_black_args as the caller passed it
    extra_isort_args,   \* local extra_isort_args, as extended so far
    extra_black_args,   \* local extra_black_args, as extended so far
    all_files, all_dirs,        \* result of find_all_files_and_dirs()
    skips,              \* skip.split(",")
    idx,                \* position of the for loop in skips
    filenames_to_skip,
    isort_black_run,
    isort_exitcode, black_exitcode,
    spawned,            \* argument vectors given to subprocess.run, in order
    returncodes,        \* the exit codes of the children that have completed, in order
    result,             \* <<v>> once pyfmt() has returned v
    exit_status         \* <<s>> once sys.exit() has ended the process with s

vars == << pc, skip, isort, black, check, caller_isort_args, caller_black_args,
           extra_isort_args, extra_black_args, all_files, all_dirs, skips, idx,
           filenames_to_skip, isort_black_run, isort_exitcode, black_exitcode,
           spawned, returncodes, result, exit_status >>

params == << skip, isort, black, check, caller_isort_args, caller_black_args >>
walked == << all_files, all_dirs >>
resolver == << skips, idx, filenames_to_skip >>
extras == << extra_isort_args, extra_black_args >>
codes == << isort_exitcode, black_exitcode >>
procs == << spawned, returncodes >>

Init ==
    /\ pc = "start"
    /\ \E l \in SkipLists : skip = join(<<",">>, l)
    /\ isort \in BOOLEAN
    /\ black \in BOOLEAN
    /\ check \in BOOLEAN
    /\ caller_isort_args \in ExtraIsortArgs
    /\ caller_black_args \in ExtraBlackArgs
    /\ extra_isort_args = caller_isort_args
    /\ extra_black_args = caller_black_args
    /\ all_files = {}
    /\ all_dirs = {}
    /\ skips = <<>>
    /\ idx = 1
    /\ filenames_to_skip = <<>>
    /\ isort_black_run = <<TRUE, TRUE>>
    /\ isort_exitcode = 0
    /\ black_exitcode = 0
    /\ spawned = <<>>
    /\ returncodes = <<>>
    /\ result = <<>>
    /\ exit_status = <<>>

(* ------------------------- exclusion resolver -------------------------- *)
\* if skip: (true) walk the tree, split the list, start the loop
BeginSkip ==
    /\ pc = "start"
    /\ skip # <<>>
    /\ all_files' = find_all_files
    /\ all_dirs' = find_all_dirs
    /\ skips' = split(skip, ",")
    /\ filenames_to_skip' = <<>>
    /\ idx' = 1
    /\ pc' = "resolve"
    /\ UNCHANGED << params, extras, isort_black_run, codes, procs, result, exit_status >>

\* if skip: (false)
NoSkip ==
    /\ pc = "start"
    /\ skip = <<>>
    /\ pc' = "check"
    /\ UNCHANGED << params, extras, walked, resolver, isort_black_run, codes, procs,
                    result, exit_status >>

\* classify without its else branch: an item that is nothing in the tree is
\* passed over like a file with the wrong extension
classify_no_else(item, files, dirs) ==
    IF item \in files THEN "file"
    ELSE IF abspath(item) \in dirs THEN "dir"
    ELSE "file"

\* the if / elif / else chain of the loop body
classify(item, files, dirs) ==
    IF item \in files THEN "file"
    ELSE IF abspath(item) \in dirs THEN "dir"
    ELSE "missing"

\* file_branch with the extension test of the directory branch
file_branch_pyi(item) ==
    IF last_dot_part(item) \in { <<"py">>, <<"pyi">> } THEN <<item>> ELSE <<>>

\* what the branch `if item in all_files` adds to filenames_to_skip
file_branch(item) == IF last_dot_part(item) = <<"py">> THEN <<item>> ELSE <<>>

\* the filter of the directory branch
dir_filter(filename) == last_dot_part(filename) \in { <<"py">>, <<"pyi">> }

\* the lists files_in_dir can end up as, one for each order of the walk
files_in_dir(item) ==
    LET kept == { f \in walk_files(item) : dir_filter(f.name) }
    IN  { [i \in 1..Cardinality(kept) |-> o[i].name] : o \in walk_orders(kept) }

\* sys.exit(arg): no argument is exit status 0
sys_exit(arg) == IF arg = <<>> THEN 0 ELSE arg[1]

\* for item in skips: if item in all_files
ResolveFile ==
    /\ pc = "resolve"
    /\ idx <= Len(skips)
    /\ classify(skips[idx], all_files, all_dirs) = "file"
    /\ filenames_to_skip' = filenames_to_skip \o file_branch(skips[idx])
    /\ idx' = idx + 1
    /\ UNCHANGED << pc, params, extras, walked, skips, isort_black_run, codes, procs,
                    result, exit_status >>

\* elif os.path.abspath(item) in all_dirs
ResolveDir ==
    /\ pc = "resolve"
    /\ idx <= Len(skips)
    /\ classify(skips[idx], all_files, all_dirs) = "dir"
    /\ \E l \in files_in_dir(skips[idx]) :
          filenames_to_skip' = filenames_to_skip \o l
    /\ idx' = idx + 1
    /\ UNCHANGED << pc, params, extras, walked, skips, isort_black_run, codes, procs,
                    result, exit_status >>

\* else: print CRITICAL ...; sys.exit()
ResolveAbort ==
    /\ pc = "resolve"
    /\ idx <= Len(skips)
    /\ classify(skips[idx], all_files, all_dirs) = "missing"
    /\ exit_status' = << sys_exit(<<>>) >>
    /\ pc' = "exited"
    /\ UNCHANGED << params, extras, walked, resolver, isort_black_run, codes, procs,
                    result >>

\* the text added to extra_isort_args
isort_skip_args(names) == <<"--skip=">> \o join(<<" ", "--skip=">>, names)

\* the text added to extra_black_args
black_skip_args(names) ==
    LET black_filenames_to_skip == <<"--exclude=">> \o join(<<"|">>, names)
    IN  <<"--exclude=">> \o black_filenames_to_skip

\* after the loop: both extra argument strings get the exclusion text
BuildSkipArgs ==
    /\ pc = "resolve"
    /\ idx > Len(skips)
    /\ extra_isort_args' = extra_isort_args \o isort_skip_args(filenames_to_skip)
    /\ extra_black_args' = extra_black_args \o black_skip_args(filenames_to_skip)
    /\ pc' = "check"
    /\ UNCHANGED << params, walked, resolver, isort_black_run, codes, procs,
                    result, exit_status >>

(* ------------------------ formatter orchestrator ----------------------- *)
\* the check flags without the blank in front of them
isort_check_flag_glued == <<"--check-only">>
black_check_flag_glued == <<"--check">>

isort_check_flag == <<" ", "--check-only">>
black_check_flag == <<" ", "--check">>

\* if check: ...
ApplyCheck ==
    /\ pc = "check"
    /\ extra_isort_args' = IF check THEN extra_isort_args \o isort_check_flag
                           ELSE extra_isort_args
    /\ extra_black_args' = IF check THEN extra_black_args \o black_check_flag
                           ELSE extra_black_args
    /\ pc' = "select"
    /\ UNCHANGED << params, walked, resolver, isort_black_run, codes, procs,
                    result, exit_status >>

\* select_run with the two one-formatter results exchanged
select_run_swapped(i, b) ==
    LET r0 == <<TRUE, TRUE>>
        r1 == IF i THEN <<FALSE, TRUE>> ELSE r0
    IN  IF b THEN <<TRUE, FALSE>> ELSE r1

\* isort_black_run after the two ifs: the second assignment overwrites the first
select_run(i, b) ==
    LET r0 == <<TRUE, TRUE>>
        r1 == IF i THEN <<TRUE, FALSE>> ELSE r0
    IN  IF b THEN <<FALSE, TRUE>> ELSE r1

SelectFormatters ==
    /\ pc = "select"
    /\ isort_black_run' = select_run(isort, black)
    /\ isort_exitcode' = 0
    /\ pc' = "isort"
    /\ UNCHANGED << params, extras, walked, resolver, black_exitcode, procs,
                    result, exit_status >>

\* run_formatter: shlex.split(" ".join(cmd).format(path=path, **kwargs))
command_line(cmd, kw) == shlex_split(format(join(<<" ">>, cmd), kw))

isort_argv ==
    command_line(ISORT_CMD, [x \in {"{path}", "{line_length}", "{extra_isort_args}"} |->
        IF x = "{path}" THEN path
        ELSE IF x = "{line_length}" THEN line_length ELSE extra_isort_args])

black_argv ==
    command_line(BLACK_CMD, [x \in {"{path}", "{line_length}", "{extra_black_args}"} |->
        IF x = "{path}" THEN path
        ELSE IF x = "{line_length}" THEN line_length ELSE extra_black_args])

\* if isort_black_run[0]: subprocess.run starts isort
IsortStart ==
    /\ pc = "isort"
    /\ isort_black_run[1]
    /\ spawned' = Append(spawned, isort_argv)
    /\ pc' = "isort_running"
    /\ UNCHANGED << params, extras, walked, resolver, isort_black_run, codes, returncodes,
                    result, exit_status >>

\* subprocess.run returns; run_formatter returns result.returncode
IsortFinish ==
    /\ pc = "isort_running"
    /\ \E rc \in ExitCodes :
          /\ returncodes' = Append(returncodes, rc)
          /\ isort_exitcode' = rc
    /\ black_exitcode' = 0
    /\ pc' = "black"
    /\ UNCHANGED << params, extras, walked, resolver, isort_black_run, spawned,
                    result, exit_status >>

\* if isort_black_run[0]: (false)
IsortSkip ==
    /\ pc = "isort"
    /\ ~ isort_black_run[1]
    /\ black_exitcode' = 0
    /\ pc' = "black"
    /\ UNCHANGED << params, extras, walked, resolver, isort_black_run, isort_exitcode,
                    procs, result, exit_status >>

\* if isort_black_run[1]: subprocess.run starts black
BlackStart ==
    /\ pc = "black"
    /\ isort_black_run[2]
    /\ spawned' = Append(spawned, black_argv)
    /\ pc' = "black_running"
    /\ UNCHANGED << params, extras, walked, resolver, isort_black_run, codes, returncodes,
                    result, exit_status >>

BlackFinish ==
    /\ pc = "black_running"
    /\ \E rc \in ExitCodes :
          /\ returncodes' = Append(returncodes, rc)
          /\ black_exitcode' = rc
    /\ pc' = "return"
    /\ UNCHANGED << params, extras, walked, resolver, isort_black_run, isort_exitcode,
                    spawned, result, exit_status >>

\* if isort_black_run[1]: (false)
BlackSkip ==
    /\ pc = "black"
    /\ ~ isort_black_run[2]
    /\ pc' = "return"
    /\ UNCHANGED << params, extras, walked, resolver, isort_black_run, codes, procs,
                    result, exit_status >>

\* `a and b` in place of `a or b`
return_value_and(a, b) == IF a = 0 THEN a ELSE b

\* Python's `a or b` on integers
return_value(a, b) == IF a # 0 THEN a ELSE b

\* return isort_exitcode or black_exitcode
Return ==
    /\ pc = "return"
    /\ result' = << return_value(isort_exitcode, black_exitcode) >>
    /\ pc' = "done"
    /\ UNCHANGED << params, extras, walked, resolver, isort_black_run, codes, procs,
                    exit_status >>

Next ==
    \/ BeginSkip \/ NoSkip
    \/ ResolveFile \/ ResolveDir \/ ResolveAbort \/ BuildSkipArgs
    \/ ApplyCheck \/ SelectFormatters
    \/ IsortStart \/ IsortFinish \/ IsortSkip
    \/ BlackStart \/ BlackFinish \/ BlackSkip
    \/ Return

Spec == Init /\ [][Next]_vars

(* ------------------------------ claims --------------------------------- *)
Range(f) == { f[i] : i \in DOMAIN f }

\* the program a spawned argument vector starts
Tool(argv) == argv[1][1]
Tools == [i \in DOMAIN spawned |-> Tool(spawned[i])]

\* the arguments of a vector that have the atom a in them
ArgsWith(argv, a) == SelectSeq(argv, LAMBDA w : a \in Range(w))

\* the tree, read directly
FileNames == { f.name : f \in Files }
NamesDir(item) == \E d \in Dirs : join(<<"/">>, d) = item
Under(item) == { f \in Files : \E d \in Dirs :
                    /\ join(<<"/">>, d) = item
                    /\ IsPrefix(d, f.dir) }
HasExt(name, e) == Len(name) >= 3 /\ name[Len(name) - 1] = "." /\ name[Len(name)] = e
SkipItems == IF skip = <<>> THEN <<>> ELSE split(skip, ",")
Resolved == pc \notin {"start", "resolve", "exited"} /\ skip # <<>>

\* C1: when pyfmt() has returned, the returned value is non-zero if and only
\* if at least one child process that was run exited non-zero.
C1_ReturnNonZeroIffSomeFailure ==
    pc = "done" =>
        ((result[1] # 0) <=> (\E i \in DOMAIN returncodes : returncodes[i] # 0))

C1_Witness ==
    /\ pc = "done"
    /\ returncodes = <<0, 2>>
    /\ result[1] # 0

\* C2: the children a completed run has spawned are [isort] with only the
\* isort flag, [black] with only the black flag and [isort, black] with
\* neither, whatever the exit codes; a second child is started only after
\* the first has completed.
C2_SpawnSequence ==
    /\ pc = "done" =>
          /\ (isort /\ ~ black) => Tools = <<"isort">>
          /\ (black /\ ~ isort) => Tools = <<"black">>
          /\ (~ isort /\ ~ black) => Tools = <<"isort", "black">>
    /\ Len(spawned) <= Len(returncodes) + 1
    /\ Len(returncodes) <= Len(spawned)

C2_Witness ==
    /\ pc = "done"
    /\ ~ isort /\ ~ black
    /\ returncodes[1] # 0
    /\ Tools = <<"isort", "black">>

\* C3 (as claimed): with both only-flags set, isort and then black are each
\* run once.
C3_BothFlagsRunBoth ==
    (pc = "done" /\ isort /\ black) => Tools = <<"isort", "black">>

\* C4: when the skip list has an item that is neither the base name of a
\* file of the tree nor a directory of the tree, no child process is ever
\* spawned and pyfmt() never returns.
C4_Unresolvable(item) == item \notin FileNames /\ ~ NamesDir(item)

C4_NoSpawnOnUnresolvable ==
    (\E i \in DOMAIN SkipItems : C4_Unresolvable(SkipItems[i])) =>
        (spawned = <<>> /\ result = <<>> /\ pc \in {"start", "resolve", "exited"})

C4_Witness ==
    /\ pc = "exited"
    /\ Len(skips) = 2
    /\ idx = 2
    /\ filenames_to_skip # <<>>
    /\ C4_Unresolvable(skips[2])
    /\ spawned = <<>>

\* C5 (as claimed): an unresolvable exclusion item ends the process with a
\* non-zero exit status.
C5_AbortStatusNonZero ==
    pc = "exited" => exit_status[1] # 0

\* C6 (as claimed): once every item has resolved, for each item that names a
\* directory of the tree the resolved filenames hold the base name of every
\* py or pyi file under it, also when a file elsewhere has the item's name.
C6_DirectoryFilesResolved ==
    Resolved =>
        \A i \in DOMAIN SkipItems :
            NamesDir(SkipItems[i]) =>
                \A f \in Under(SkipItems[i]) :
                    (HasExt(f.name, "py") \/ HasExt(f.name, "pyi"))
                        => f.name \in Range(filenames_to_skip)

\* C7 (as claimed): with exclusions active, the arguments of isort that have
\* --skip= in them are exactly one --skip=<filename> per resolved filename,
\* and each of the caller's extra arguments is an argument of its own.
C7_IsortSkipArguments ==
    Resolved =>
        \A k \in DOMAIN spawned :
            Tool(spawned[k]) = "isort" =>
                /\ ArgsWith(spawned[k], "--skip=") =
                       [i \in DOMAIN filenames_to_skip |->
                            <<"--skip=">> \o filenames_to_skip[i]]
                /\ \A w \in Range(shlex_split(caller_isort_args)) :
                       w \in Range(spawned[k])

\* C8 (as claimed): with exclusions active, black gets exactly one argument
\* with --exclude= in it, and it is --exclude= followed by the resolved
\* filenames joined by |.
C8_BlackExcludeArgument ==
    Resolved =>
        \A k \in DOMAIN spawned :
            Tool(spawned[k]) = "black" =>
                ArgsWith(spawned[k], "--exclude=") =
                    << <<"--exclude=">> \o join(<<"|">>, filenames_to_skip) >>

\* C9: with check set every child gets its check flag as an argument of its
\* own (--check-only for isort, --check for black); with check unset no
\* argument of a child has either flag in it.
C9_CheckFlag ==
    \A k \in DOMAIN spawned :
        LET flag == IF Tool(spawned[k]) = "isort" THEN "--check-only" ELSE "--check"
        IN  IF check
            THEN /\ <<flag>> \in Range(spawned[k])
                 /\ ArgsWith(spawned[k], flag) = << <<flag>> >>
            ELSE /\ ArgsWith(spawned[k], "--check-only") = <<>>
                 /\ ArgsWith(spawned[k], "--check") = <<>>

C9_Witness ==
    /\ check
    /\ skip # <<>>
    /\ filenames_to_skip # <<>>
    /\ caller_isort_args # <<>>
    /\ caller_black_args # <<>>
    /\ Tools = <<"isort", "black">>

====
